---- MODULE Spec2Model ----
(***************************************************************************)
(* Model of the pumpkinpi snake game (src/main.py): the grid world         *)
(* (reset, handle_input_game, step), the screen state set by               *)
(* _to_gameover, and the leaderboard (load_scores, save_scores,            *)
(* _qualifies, _is_top_score, _commit_score).                              *)
(*                                                                         *)
(* Cells and headings are pairs <<x, y>>.  A leaderboard entry is a record *)
(* [name, score] whose name is a sequence of one-character strings.  Axis  *)
(* readings are in tenths (the float 0.6 is 6).  Times are milliseconds.   *)
(***************************************************************************)
EXTENDS Integers, Sequences, FiniteSets, TLC

VARIABLES
    snake,              \* self.snake: cells, head first
    dir,                \* self.dir: current heading
    next_dir,           \* self.next_dir: queued heading
    want,               \* local `want` of the latest handle_input_game()
    grow,               \* self.grow
    score,              \* self.score
    food,               \* self.food
    accum,              \* self.accum
    state,              \* self.state
    entry_name,         \* self.entry_name: 4 slots
    entry_idx,          \* self.entry_idx: 0..4
    start_need_neutral, \* self.start_need_neutral
    last_ui_nav,        \* self.last_ui_nav
    gameover_until,     \* self.gameover_until
    post_until,         \* self.post_until
    topcelebrate_until, \* self.topcelebrate_until
    scores,             \* self.scores: the in-memory leaderboard
    disk,               \* content of the file at SAVE_PATH
    tmpfile,            \* content of the temp file made by the latest save_scores()
    js,                 \* self.js is not None (a joystick is attached)
    now,                \* pygame.time.get_ticks()
    running,            \* local `running` of run()
    pc                  \* position in run(): "frame" (top of the loop),
                        \* "ticks" (the while loop of the playing branch),
                        \* "hung" (inside random_empty_cell, which never returns),
                        \* "save_created", "save_writing", "save_written",
                        \* "save_moved" (inside save_scores, after that step),
                        \* "raised" (an exception has left run()),
                        \* "killed" (the process was killed),
                        \* "quit" (the loop has ended: run() has returned),
                        \* "loaded" (a later process has run __init__())

vars == <<snake, dir, next_dir, want, grow, score, food, accum, state,
          entry_name, entry_idx, start_need_neutral, last_ui_nav,
          gameover_until, post_until, topcelebrate_until, scores, disk,
          tmpfile, js, now, running, pc>>

worldVars == <<snake, grow, score, food>>
headingVars == <<dir, next_dir, want>>
entryVars == <<entry_name, entry_idx, last_ui_nav>>
timerVars == <<gameover_until, post_until, topcelebrate_until>>
boardVars == <<scores, disk, tmpfile>>

----------------------------------------------------------------------------
(* Program constants *)

\* The source computes GRID_W, GRID_H = 1024 // 48, 600 // 48 = 21, 12.  The
\* model checks a smaller board; the initial snake needs GRID_W \div 2 >= 3.
GRID_W == 6
GRID_H == 2

STEP_MS == 150
START_LEN == 4
MAX_SCORES == 10
AXIS_THRESH == 6
NEUTRAL_DEADZONE == 2
UI_REPEAT_MS == 220
GAMEOVER_LOCK_MS == 5000
TOPCELEB_MS == 5000

Cells == (0 .. GRID_W - 1) \X (0 .. GRID_H - 1)

RIGHT == <<1, 0>>
LEFT  == <<-1, 0>>
DOWN  == <<0, 1>>
UP    == <<0, -1>>
Directions == {RIGHT, LEFT, DOWN, UP}

Neg(d) == <<0 - d[1], 0 - d[2]>>

Abs(x) == IF x < 0 THEN 0 - x ELSE x

----------------------------------------------------------------------------
(* Inputs *)

\* Logical keys held in a keyboard snapshot: "up" is K_UP or K_w, and so on.
KeyNames == {"up", "down", "left", "right"}
KeySnapshots == {{}, {"up"}, {"down"}, {"left"}, {"right"},
                 {"up", "down"}, {"down", "left"}, {"left", "right"}}

\* Axis readings (tenths): full deflection, neutral, just below the
\* threshold, exactly the threshold.
AxisVals == {-10, 0, 5, 6}

\* Frame deltas returned by clock.tick(60): half a step and two steps, so
\* that a frame runs no tick, one tick or two ticks.
DtVals == {STEP_MS \div 2, 2 * STEP_MS}

----------------------------------------------------------------------------
(* World helpers *)

SnakeCells(s) == {s[i] : i \in 1 .. Len(s)}

InGrid(c) == c[1] >= 0 /\ c[1] < GRID_W /\ c[2] >= 0 /\ c[2] < GRID_H

\* random_empty_cell(blocked) returns some cell outside blocked; the cells it
\* can return.  When there is none its loop never ends.
EmptyCellsAny(blocked) == Cells
EmptyCells(blocked) == Cells \ blocked

\* reset(): the initial snake, head at the grid centre.
InitialSnake == [i \in 1 .. START_LEN |-> <<(GRID_W \div 2) - (i - 1), GRID_H \div 2>>]

\* step(): the cell the head moves to.
NewHead(s, d) == <<s[1][1] + d[1], s[1][2] + d[2]>>

OutOfGridNever(c) == FALSE
OutOfGrid(c) == c[1] < 0 \/ c[1] >= GRID_W \/ c[2] < 0 \/ c[2] >= GRID_H

\* step(): `new_head in self.snake`, the whole body including the tail cell.
HitsBody(c, s) == \E i \in 1 .. Len(s) : s[i] = c

\* step(): the two collision tests, in order.
CollidesWallOnly(c, s) == OutOfGrid(c)
Collides(c, s) == OutOfGrid(c) \/ HitsBody(c, s)

----------------------------------------------------------------------------
(* Leaderboard helpers *)

A4 == <<"A", "A", "A", "A">>

Entry(n, sc) == [name |-> n, score |-> sc]

\* _qualifies(score)
QualifiesTie(tbl, sc) ==
    IF sc <= 0 THEN FALSE
    ELSE IF Len(tbl) = 0 \/ Len(tbl) < MAX_SCORES THEN TRUE
    ELSE sc >= tbl[Len(tbl)].score
Qualifies(tbl, sc) ==
    IF sc <= 0 THEN FALSE
    ELSE IF Len(tbl) = 0 \/ Len(tbl) < MAX_SCORES THEN TRUE
    ELSE sc > tbl[Len(tbl)].score

\* _is_top_score(score)
IsTopScoreStrict(tbl, sc) ==
    IF Len(tbl) = 0 THEN sc > 0
    ELSE sc > tbl[1].score
IsTopScore(tbl, sc) ==
    IF Len(tbl) = 0 THEN sc > 0
    ELSE sc >= tbl[1].score

\* list.sort(key=score, reverse=True): a stable sort, descending by score.
\* InsertDesc puts e behind every entry whose score is not smaller.
RECURSIVE InsertDescBeforeTies(_, _)
InsertDescBeforeTies(e, tbl) ==
    IF tbl = <<>> THEN <<e>>
    ELSE IF tbl[1].score > e.score THEN <<tbl[1]>> \o InsertDescBeforeTies(e, Tail(tbl))
    ELSE <<e>> \o tbl
RECURSIVE InsertDesc(_, _)
InsertDesc(e, tbl) ==
    IF tbl = <<>> THEN <<e>>
    ELSE IF tbl[1].score >= e.score THEN <<tbl[1]>> \o InsertDesc(e, Tail(tbl))
    ELSE <<e>> \o tbl

RECURSIVE SortDesc(_)
SortDescUnsorted(tbl) == tbl
SortDesc(tbl) ==
    IF tbl = <<>> THEN <<>>
    ELSE InsertDesc(tbl[Len(tbl)], SortDesc(SubSeq(tbl, 1, Len(tbl) - 1)))

\* tbl[:MAX_SCORES]
Truncate(tbl) == SubSeq(tbl, 1, IF Len(tbl) < MAX_SCORES THEN Len(tbl) ELSE MAX_SCORES)

\* str(name)[:4]
Clip4(n) == SubSeq(n, 1, IF Len(n) < 4 THEN Len(n) ELSE 4)

\* A file: kind "absent" (no file), "list" (a JSON list, its elements in
\* items), "notlist" (another JSON document), "badrecord" (a list holding a
\* record load_scores() cannot convert), "empty" (a file of no bytes) or
\* "partial" (the beginning of a JSON text, cut off).
Document(k, its) == [kind |-> k, items |-> its]

\* An element of a JSON list is a record.  The field name is a string and may
\* be missing; the score is the integer field score, or a float given in
\* tenths by the field score_tenths, or missing.  An element with the field
\* bad is one that makes the loop body of load_scores() raise: "notdict" (no
\* .get), "score" (int() of a text that is no number, or of null).
ConvertsAny(it) == TRUE
Converts(it) == "bad" \notin DOMAIN it

\* str(it.get("name", ""))
RawName(it) == IF "name" \in DOMAIN it THEN it.name ELSE <<>>

\* int(x) of a float given in tenths: truncation toward zero.
IntOfTenths(x) == IF x >= 0 THEN x \div 10 ELSE 0 - ((0 - x) \div 10)

\* int(it.get("score", 0))
RawScore(it) ==
    IF "score" \in DOMAIN it THEN it.score
    ELSE IF "score_tenths" \in DOMAIN it THEN IntOfTenths(it.score_tenths)
    ELSE 0

\* load_scores(path): any exception gives the empty table.
LoadScores(doc) ==
    IF doc.kind = "list" /\ \A i \in 1 .. Len(doc.items) : Converts(doc.items[i])
    THEN Truncate(SortDesc([i \in 1 .. Len(doc.items) |->
                               Entry(Clip4(RawName(doc.items[i])), RawScore(doc.items[i]))]))
    ELSE <<>>

\* save_scores(path, scores), when every step of it succeeds.
SaveScores(tbl) == Document("list", tbl)

\* "".join(self.entry_name).strip() or "AAAA"
RECURSIVE LStrip(_)
LStrip(n) == IF n # <<>> /\ n[1] = " " THEN LStrip(Tail(n)) ELSE n
RECURSIVE RStrip(_)
RStrip(n) == IF n # <<>> /\ n[Len(n)] = " " THEN RStrip(SubSeq(n, 1, Len(n) - 1)) ELSE n
EntryNameOf(buf) == IF RStrip(LStrip(buf)) = <<>> THEN A4 ELSE RStrip(LStrip(buf))

\* _commit_score(): the table after appending, sorting and truncating.
CommittedPrepend(tbl, n, sc) == Truncate(SortDesc(<<Entry(n, sc)>> \o tbl))
Committed(tbl, n, sc) == Truncate(SortDesc(Append(tbl, Entry(n, sc))))

----------------------------------------------------------------------------
(* Handlers *)

\* _to_gameover(), the score being sc and get_ticks() reading t: the screen
\* the session ends on, and its timer.
ToGameoverAtNoCelebration(sc, t) ==
    IF Qualifies(scores, sc)
    THEN /\ state' = "enter_score"
         /\ entry_name' = A4
         /\ entry_idx' = 0
         /\ last_ui_nav' = 0
         /\ UNCHANGED <<topcelebrate_until, gameover_until, start_need_neutral>>
    ELSE /\ state' = "gameover"
         /\ gameover_until' = t + GAMEOVER_LOCK_MS
         /\ start_need_neutral' = TRUE
         /\ UNCHANGED <<entry_name, entry_idx, last_ui_nav, topcelebrate_until>>
ToGameoverAt(sc, t) ==
    IF Qualifies(scores, sc)
    THEN IF IsTopScore(scores, sc)
         THEN /\ state' = "topcelebrate"
              /\ topcelebrate_until' = t + TOPCELEB_MS
              /\ UNCHANGED <<entry_name, entry_idx, last_ui_nav,
                             gameover_until, start_need_neutral>>
         ELSE /\ state' = "enter_score"
              /\ entry_name' = A4
              /\ entry_idx' = 0
              /\ last_ui_nav' = 0
              /\ UNCHANGED <<topcelebrate_until, gameover_until, start_need_neutral>>
    ELSE /\ state' = "gameover"
         /\ gameover_until' = t + GAMEOVER_LOCK_MS
         /\ start_need_neutral' = TRUE
         /\ UNCHANGED <<entry_name, entry_idx, last_ui_nav, topcelebrate_until>>

ToGameover == ToGameoverAt(score, now)

\* handle_input_game(): the keyboard candidate, first matching key wins.
KeyWant(keys, nd) ==
    IF "up" \in keys THEN UP
    ELSE IF "down" \in keys THEN DOWN
    ELSE IF "left" \in keys THEN LEFT
    ELSE IF "right" \in keys THEN RIGHT
    ELSE nd

\* handle_input_game(): the joystick overrides the candidate w when deflected.
\* a0, a1 are get_axis(0), get_axis(1); AXIS_H = 1, AXIS_V = 0, V inverted.
StickWant(a0, a1, w) ==
    LET ax_h == a1
        ax_v == 0 - a0
    IN  IF Abs(ax_h) > Abs(ax_v)
        THEN IF ax_h <= 0 - AXIS_THRESH THEN LEFT
             ELSE IF ax_h >= AXIS_THRESH THEN RIGHT
             ELSE w
        ELSE IF ax_v <= 0 - AXIS_THRESH THEN UP
             ELSE IF ax_v >= AXIS_THRESH THEN DOWN
             ELSE w

\* handle_input_game(): the reversal guard on the candidate w.
AcceptedAlways(w, d) == TRUE
Accepted(w, d) == (w[1] # 0 - d[1]) \/ (w[2] # 0 - d[2])

\* reset(), all assignments but the one to self.state.
ResetFieldsKeepHeading ==
    /\ snake' = InitialSnake
    /\ dir' = dir
    /\ next_dir' = dir
    /\ grow' = 0
    /\ score' = 0
    /\ food' \in EmptyCells(SnakeCells(InitialSnake))
    /\ accum' = 0
    /\ entry_name' = A4
    /\ entry_idx' = 0
    /\ start_need_neutral' = TRUE
ResetFields ==
    /\ snake' = InitialSnake
    /\ dir' = RIGHT
    /\ next_dir' = RIGHT
    /\ grow' = 0
    /\ score' = 0
    /\ food' \in EmptyCells(SnakeCells(InitialSnake))
    /\ accum' = 0
    /\ entry_name' = A4
    /\ entry_idx' = 0
    /\ start_need_neutral' = TRUE

\* _stick_neutral() and _stick_moved() on the readings a0, a1.
StickNeutralAlways(a0, a1) == TRUE
StickNeutral(a0, a1) == Abs(a1) < NEUTRAL_DEADZONE /\ Abs(a0) < NEUTRAL_DEADZONE
StickMoved(a0, a1) == Abs(a1) > AXIS_THRESH \/ Abs(a0) > AXIS_THRESH

\* handle_input_game(): the candidate for a keyboard snapshot and a pair of
\* axis readings, the queued heading being nd.
Candidate(keys, a0, a1, nd) ==
    IF js THEN StickWant(a0, a1, KeyWant(keys, nd)) ELSE KeyWant(keys, nd)

\* handle_input_game(), its candidate being w.
HandleInputGame(w) ==
    /\ want' = w
    /\ next_dir' = IF Accepted(w, dir) THEN w ELSE next_dir

\* step(): self.score += 1
ScoreAfterEatingTwice(sc) == sc + 2
ScoreAfterEatingNone(sc) == sc
ScoreAfterEating(sc) == sc + 1

\* step(): one tick.  The heading is adopted first; a collision ends the
\* session through _to_gameover() and leaves the world as it was; otherwise
\* the head is inserted and the snake eats, grows or drops its tail.  Eating
\* on a board that the snake then fills calls random_empty_cell() with every
\* cell blocked: the call never returns and self.food is never assigned.
StepBody ==
    LET d  == next_dir
        nh == NewHead(snake, d)
        ins == <<nh>> \o snake
    IN  /\ dir' = d
        /\ IF Collides(nh, snake)
           THEN /\ ToGameover
                /\ UNCHANGED <<snake, grow, score, food>>
                /\ pc' = pc
           ELSE /\ UNCHANGED <<state, entry_name, entry_idx, last_ui_nav,
                               gameover_until, topcelebrate_until,
                               start_need_neutral>>
                /\ IF nh = food
                   THEN /\ snake' = ins
                        /\ score' = ScoreAfterEating(score)
                        /\ grow' = grow + 1
                        /\ IF EmptyCells(SnakeCells(ins)) = {}
                           THEN food' = food /\ pc' = "hung"
                           ELSE food' \in EmptyCells(SnakeCells(ins)) /\ pc' = pc
                   ELSE /\ UNCHANGED <<score, food>>
                        /\ pc' = pc
                        /\ IF grow > 0
                           THEN grow' = grow - 1 /\ snake' = ins
                           ELSE grow' = grow /\ snake' = SubSeq(ins, 1, Len(ins) - 1)

\* _commit_score(), get_ticks() reading t.
CommitScoreAt(t) ==
    /\ scores' = Committed(scores, EntryNameOf(entry_name), score)
    /\ disk' = SaveScores(scores')
    /\ tmpfile' = Document("absent", <<>>)
    /\ state' = "post_submit"
    /\ post_until' = t + GAMEOVER_LOCK_MS
    /\ start_need_neutral' = TRUE

----------------------------------------------------------------------------
(* run(): one frame, split at the positions named by pc *)

\* Every frame action takes the clock reading t that get_ticks() gives after
\* the frame's clock.tick(60); the playing branch also takes the delta d.
\* quit says that the events of the frame hold a QUIT event or a KEYDOWN
\* K_ESCAPE: the loop at the top of run() then clears `running`, the branch
\* of the frame runs all the same, and the while loop ends after it.

\* The position after a frame whose `running` is r.
AfterFrame(r) == IF r THEN "frame" ELSE "quit"

\* The menu branch: ENTER (a key edge) or a stick moved after a neutral
\* reading starts a game.
FrameMenu(quit, enter, a0, a1, t) ==
    /\ pc = "frame" /\ state = "menu"
    /\ now' = t
    /\ running' = ~quit
    /\ pc' = AfterFrame(running')
    /\ LET started == enter \/ (js /\ ~start_need_neutral /\ StickMoved(a0, a1))
       IN  IF started
           THEN /\ ResetFields
                /\ state' = "playing"
                /\ UNCHANGED <<want, last_ui_nav>>
           ELSE /\ start_need_neutral' =
                     IF js /\ start_need_neutral /\ StickNeutral(a0, a1)
                     THEN FALSE ELSE start_need_neutral
                /\ UNCHANGED <<worldVars, headingVars, accum, state, entryVars>>
    /\ UNCHANGED <<timerVars, boardVars, js>>

\* The playing branch up to the while loop: poll, then accumulate dt.
FramePlayingPollNoCarry(quit, w, d, t) ==
    /\ pc = "frame" /\ state = "playing"
    /\ now' = t
    /\ running' = ~quit
    /\ HandleInputGame(w)
    /\ accum' = d
    /\ pc' = "ticks"
    /\ UNCHANGED <<worldVars, dir, state, entryVars, start_need_neutral,
                   timerVars, boardVars, js>>
FramePlayingPollTurnsNow(quit, w, d, t) ==
    /\ pc = "frame" /\ state = "playing"
    /\ now' = t
    /\ running' = ~quit
    /\ HandleInputGame(w)
    /\ dir' = next_dir'
    /\ accum' = accum + d
    /\ pc' = "ticks"
    /\ UNCHANGED <<worldVars, state, entryVars, start_need_neutral,
                   timerVars, boardVars, js>>
FramePlayingPoll(quit, w, d, t) ==
    /\ pc = "frame" /\ state = "playing"
    /\ now' = t
    /\ running' = ~quit
    /\ HandleInputGame(w)
    /\ accum' = accum + d
    /\ pc' = "ticks"
    /\ UNCHANGED <<worldVars, dir, state, entryVars, start_need_neutral,
                   timerVars, boardVars, js>>

\* One iteration of `while self.accum >= STEP_MS`.
Step ==
    /\ pc = "ticks" /\ accum >= STEP_MS
    /\ StepBody
    /\ accum' = IF pc' = "hung" THEN accum ELSE accum - STEP_MS
    /\ UNCHANGED <<next_dir, want, post_until, boardVars, js, now, running>>

\* The end of the playing branch: a SPACE key edge pauses; the loop goes on
\* when `running` is still set.
FramePlayingEnd(space) ==
    /\ pc = "ticks" /\ accum < STEP_MS
    /\ state' = IF space THEN "paused" ELSE state
    /\ pc' = AfterFrame(running)
    /\ UNCHANGED <<worldVars, headingVars, accum, entryVars, start_need_neutral,
                   timerVars, boardVars, js, now, running>>

\* The paused branch: a SPACE key edge resumes.
FramePaused(quit, space, t) ==
    /\ pc = "frame" /\ state = "paused"
    /\ now' = t
    /\ state' = IF space THEN "playing" ELSE state
    /\ running' = ~quit
    /\ pc' = AfterFrame(running')
    /\ UNCHANGED <<worldVars, headingVars, accum, entryVars, start_need_neutral,
                   timerVars, boardVars, js>>

\* The topcelebrate branch: input is ignored, name entry follows the timer.
FrameTopCelebrate(quit, t) ==
    /\ pc = "frame" /\ state = "topcelebrate"
    /\ now' = t
    /\ running' = ~quit
    /\ pc' = AfterFrame(running')
    /\ IF t >= topcelebrate_until
       THEN /\ state' = "enter_score"
            /\ entry_name' = A4
            /\ entry_idx' = 0
            /\ last_ui_nav' = 0
       ELSE UNCHANGED <<state, entryVars>>
    /\ UNCHANGED <<worldVars, headingVars, accum, start_need_neutral,
                   timerVars, boardVars, js>>

\* The enter_score branch for the single event KEYDOWN K_UP with the cursor
\* on the submit slot: _ui_can_nav() passes and _commit_score() runs.  The
\* joystick part that follows finds the cooldown just restarted.
FrameEnterScoreSubmit(t) ==
    /\ pc = "frame" /\ state = "enter_score"
    /\ entry_idx = 4
    /\ t - last_ui_nav >= UI_REPEAT_MS
    /\ now' = t
    /\ running' = TRUE
    /\ pc' = AfterFrame(running')
    /\ last_ui_nav' = t
    /\ CommitScoreAt(t)
    /\ UNCHANGED <<worldVars, headingVars, accum, entry_name, entry_idx,
                   gameover_until, topcelebrate_until, js>>

\* The post_submit branch: input is ignored, the menu follows the timer.
FramePostSubmit(quit, t) ==
    /\ pc = "frame" /\ state = "post_submit"
    /\ now' = t
    /\ running' = ~quit
    /\ pc' = AfterFrame(running')
    /\ IF t >= post_until
       THEN state' = "menu" /\ start_need_neutral' = TRUE
       ELSE UNCHANGED <<state, start_need_neutral>>
    /\ UNCHANGED <<worldVars, headingVars, accum, entryVars, timerVars, boardVars, js>>

\* The gameover branch: input is ignored, the menu follows the timer.
FrameGameOver(quit, t) ==
    /\ pc = "frame" /\ state = "gameover"
    /\ now' = t
    /\ running' = ~quit
    /\ pc' = AfterFrame(running')
    /\ IF t >= gameover_until
       THEN state' = "menu" /\ start_need_neutral' = TRUE
       ELSE UNCHANGED <<state, start_need_neutral>>
    /\ UNCHANGED <<worldVars, headingVars, accum, entryVars, timerVars, boardVars, js>>

----------------------------------------------------------------------------
(* Name entry: _ui_can_nav, _ui_move_cursor, _ui_change_letter and         *)
(* handle_input_entry                                                      *)

\* charset of _ui_change_letter(): A-Z, 0-9, space.
Charset ==
    <<"A", "B", "C", "D", "E", "F", "G", "H", "I", "J", "K", "L", "M",
      "N", "O", "P", "Q", "R", "S", "T", "U", "V", "W", "X", "Y", "Z",
      "0", "1", "2", "3", "4", "5", "6", "7", "8", "9", " ">>

\* charset.index(cur), 0 when cur is not in the charset (ValueError).
CharIndex(c) ==
    IF \E i \in 1 .. Len(Charset) : Charset[i] = c
    THEN (CHOOSE i \in 1 .. Len(Charset) : Charset[i] = c) - 1
    ELSE 0

\* _ui_move_cursor(delta) on the cursor idx: max(0, min(4, idx + delta)).
UiMoveCursor(idx, delta) ==
    LET m == IF idx + delta < 4 THEN idx + delta ELSE 4
    IN  IF m > 0 THEN m ELSE 0

\* _ui_change_letter(delta) on the buffer name with the cursor idx.
UiChangeLetterClamped(name, idx, delta) ==
    IF idx >= 4 THEN name
    ELSE LET k == CharIndex(name[idx + 1]) + delta
             c == IF k < 0 THEN 0 ELSE IF k >= Len(Charset) THEN Len(Charset) - 1 ELSE k
         IN  [name EXCEPT ![idx + 1] = Charset[c + 1]]
UiChangeLetter(name, idx, delta) ==
    IF idx >= 4 THEN name
    ELSE [name EXCEPT ![idx + 1] =
             Charset[((CharIndex(name[idx + 1]) + delta + Len(Charset)) % Len(Charset)) + 1]]

\* _ui_can_nav(): the test, get_ticks() reading t; passing it sets
\* last_ui_nav to t.
UiCanNav(last, t) == t - last >= UI_REPEAT_MS

\* The fields handle_input_entry() reads and writes, as a record.
EntryFields ==
    [name |-> entry_name, idx |-> entry_idx, last |-> last_ui_nav,
     state |-> state, scores |-> scores, disk |-> disk,
     gameover_until |-> gameover_until, post_until |-> post_until,
     need_neutral |-> start_need_neutral]

\* _commit_score() on the fields e, the session's score being sc.
CommitFields(e, sc, t) ==
    LET tbl == Committed(e.scores, EntryNameOf(e.name), sc)
    IN  [e EXCEPT !.scores = tbl, !.disk = SaveScores(tbl),
                  !.state = "post_submit",
                  !.post_until = t + GAMEOVER_LOCK_MS,
                  !.need_neutral = TRUE]

\* handle_input_entry(): the body of `for e in events` for one event.  k is
\* "left", "right", "up", "down" (KEYDOWN of the arrow or its letter key),
\* "esc" (KEYDOWN K_ESCAPE) or "quit" (a QUIT event, which is no KEYDOWN and
\* is passed over).
KeyEvent(e, k, sc, t) ==
    IF k = "quit" THEN e
    ELSE IF k = "esc"
    THEN [e EXCEPT !.state = "gameover", !.gameover_until = t + GAMEOVER_LOCK_MS]
    ELSE IF ~UiCanNav(e.last, t) THEN e
    ELSE LET e1 == [e EXCEPT !.last = t]
         IN  CASE k = "left"  -> [e1 EXCEPT !.idx = UiMoveCursor(e.idx, 0 - 1)]
               [] k = "right" -> [e1 EXCEPT !.idx = UiMoveCursor(e.idx, 1)]
               [] k = "up"    -> IF e.idx = 4 THEN CommitFields(e1, sc, t)
                                 ELSE [e1 EXCEPT !.name = UiChangeLetter(e.name, e.idx, 1)]
               [] k = "down"  -> IF e.idx < 4
                                 THEN [e1 EXCEPT !.name = UiChangeLetter(e.name, e.idx, 0 - 1)]
                                 ELSE e1

\* handle_input_entry(): `for e in events`, in order.
RECURSIVE KeyEvents(_, _, _, _)
KeyEvents(e, evs, sc, t) ==
    IF evs = <<>> THEN e
    ELSE KeyEvents(KeyEvent(e, Head(evs), sc, t), Tail(evs), sc, t)

\* handle_input_entry(): the joystick part, a0 and a1 being get_axis(0) and
\* get_axis(1).  _ui_can_nav() is called whenever a joystick is attached,
\* before the axes are read; AXIS_V is not inverted here.
StickAction(e1, a0, a1, sc, t) ==
    LET ax_h == a1
        ax_v == a0
    IN  IF Abs(ax_h) > Abs(ax_v)
        THEN IF ax_h <= 0 - AXIS_THRESH THEN [e1 EXCEPT !.idx = UiMoveCursor(e1.idx, 0 - 1)]
             ELSE IF ax_h >= AXIS_THRESH THEN [e1 EXCEPT !.idx = UiMoveCursor(e1.idx, 1)]
             ELSE e1
        ELSE IF ax_v <= 0 - AXIS_THRESH
             THEN IF e1.idx = 4 THEN CommitFields(e1, sc, t)
                  ELSE [e1 EXCEPT !.name = UiChangeLetter(e1.name, e1.idx, 1)]
             ELSE IF ax_v >= AXIS_THRESH
             THEN IF e1.idx < 4
                  THEN [e1 EXCEPT !.name = UiChangeLetter(e1.name, e1.idx, 0 - 1)]
                  ELSE e1
             ELSE e1

StickPartUngated(e, j, a0, a1, sc, t) ==
    IF j THEN StickAction([e EXCEPT !.last = t], a0, a1, sc, t) ELSE e
StickPart(e, j, a0, a1, sc, t) ==
    IF j /\ UiCanNav(e.last, t)
    THEN StickAction([e EXCEPT !.last = t], a0, a1, sc, t)
    ELSE e

\* handle_input_entry(events) on the fields e.
HandleInputEntry(e, evs, j, a0, a1, sc, t) ==
    StickPart(KeyEvents(e, evs, sc, t), j, a0, a1, sc, t)

\* The top of run() on the events evs: a QUIT event or a KEYDOWN K_ESCAPE
\* among them clears `running`.
Quits(evs) == \E i \in 1 .. Len(evs) : evs[i] \in {"esc", "quit"}

\* The enter_score branch of run(), the events of the frame being evs and
\* every get_ticks() of the frame reading t.
FrameEnterScore(evs, a0, a1, t) ==
    /\ pc = "frame" /\ state = "enter_score"
    /\ now' = t
    /\ running' = ~Quits(evs)
    /\ pc' = AfterFrame(running')
    /\ LET e == HandleInputEntry(EntryFields, evs, js, a0, a1, score, t)
       IN  /\ entry_name' = e.name
           /\ entry_idx' = e.idx
           /\ last_ui_nav' = e.last
           /\ state' = e.state
           /\ scores' = e.scores
           /\ disk' = e.disk
           /\ gameover_until' = e.gameover_until
           /\ post_until' = e.post_until
           /\ start_need_neutral' = e.need_neutral
    /\ UNCHANGED <<worldVars, headingVars, accum, topcelebrate_until, tmpfile, js>>

----------------------------------------------------------------------------
(* The state after SnakeGame.__init__(), the file at SAVE_PATH being doc *)

InitWith(doc, j) ==
    /\ disk = doc
    /\ tmpfile = Document("absent", <<>>)
    /\ scores = LoadScores(doc)
    /\ js = j
    /\ last_ui_nav = 0
    /\ gameover_until = 0 /\ post_until = 0 /\ topcelebrate_until = 0
    /\ snake = InitialSnake
    /\ dir = RIGHT /\ next_dir = RIGHT /\ want = RIGHT
    /\ grow = 0 /\ score = 0
    /\ food \in EmptyCells(SnakeCells(InitialSnake))
    /\ accum = 0
    /\ state = "menu"
    /\ entry_name = A4 /\ entry_idx = 0
    /\ start_need_neutral = TRUE
    /\ now = 0
    /\ running = TRUE
    /\ pc = "frame"

----------------------------------------------------------------------------
(* Frames with fixed inputs, for the specifications whose subject is not   *)
(* the play or the editing: ENTER in the menu; no key and a neutral stick  *)
(* while playing, one tick per frame, so that the snake runs straight into *)
(* the right wall at its third tick; in the editor one key per frame:      *)
(* K_RIGHT, or K_DOWN on a slot that holds A.  The window is not closed    *)
(* and K_ESCAPE is not pressed in these frames: no QUIT event.             *)

\* The cells random_empty_cell() returns in __init__() and in the reset() of
\* a start: the cell before the head and a cell away from its path.
StartFood == <<(GRID_W \div 2) + 1, GRID_H \div 2>>
LoopFoods == {StartFood, <<0, 0>>}

\* The cells random_empty_cell() returns in step(): the last cell of the
\* head's row or a cell away from its path (food' = food when none is drawn).
StraightFoods == {<<GRID_W - 1, GRID_H \div 2>>, <<0, 0>>}

\* The menu frame with KEYDOWN K_RETURN at time t.
StraightStart(t) == FrameMenu(FALSE, TRUE, 0, 0, t) /\ food' \in LoopFoods

\* A playing frame of delta STEP_MS at time t, up to the while loop.
StraightPoll(t) == FramePlayingPoll(FALSE, Candidate({}, 0, 0, next_dir), STEP_MS, t)

\* The tick of such a frame.
StraightStep == Step /\ food' \in {food} \cup StraightFoods

\* An enter_score frame with KEYDOWN K_RIGHT, the cursor on a letter slot.
EditRight(t) == entry_idx < 4 /\ FrameEnterScore(<<"right">>, 0, 0, t)

\* An enter_score frame with KEYDOWN K_DOWN on a slot holding A, which
\* becomes the blank: slot 0, slot 3, or the slot after a blank.
EditBlank(t) ==
    /\ entry_idx < 4
    /\ entry_name[entry_idx + 1] = "A"
    /\ IF entry_idx \in {0, 3} THEN TRUE ELSE entry_name[entry_idx] = " "
    /\ FrameEnterScore(<<"down">>, 0, 0, t)

----------------------------------------------------------------------------
(* SpecWorld: the grid world driven by the menu, playing and paused        *)
(* branches of run().  The wall clock is not tracked here (every reading   *)
(* of get_ticks() is 0): the world reads only the frame delta dt.          *)

\* A table of n entries named nm, all of score sc.
Flat(n, nm, sc) == [i \in 1 .. n |-> Entry(nm, sc)]

\* One entry of score 2: a session of score 0 does not qualify, one of score
\* 1 qualifies below the top, one of score 2 or more is a top score.
WorldFile == Document("list", Flat(1, A4, 2))

\* A joystick is attached; without one handle_input_game() computes the
\* keyboard candidates only, which the neutral stick gives here as well.
InitWorld == InitWith(WorldFile, TRUE)

StickReadings == IF js THEN AxisVals ELSE {0}

\* The candidates handle_input_game() can compute in the current state, over
\* every keyboard snapshot and every pair of axis readings.
Candidates ==
    {Candidate(keys, a0, a1, next_dir) :
        keys \in KeySnapshots, a0 \in StickReadings, a1 \in StickReadings}

\* Sessions in which SPACE and K_ESCAPE are never pressed and the window is
\* not closed.
NextWorld ==
    \/ \E enter \in BOOLEAN, a0, a1 \in StickReadings :
          FrameMenu(FALSE, enter, a0, a1, now)
    \/ \E w \in Candidates, d \in DtVals : FramePlayingPoll(FALSE, w, d, now)
    \/ Step
    \/ FramePlayingEnd(FALSE)

SpecWorld == InitWorld /\ [][NextWorld]_vars

----------------------------------------------------------------------------
(* Claims about the world, checked under SpecWorld *)

\* A transition that is a call of step(), of handle_input_game(), of reset().
StepTaken == pc = "ticks" /\ accum >= STEP_MS /\ (accum' # accum \/ pc' = "hung")
PollTaken == pc = "frame" /\ state = "playing" /\ pc' = "ticks"
ResetTaken == pc = "frame" /\ state = "menu" /\ state' = "playing"

\* C1: in every reachable state the cells of the snake are pairwise distinct
\* and each lies inside the grid.
C1_SnakeDistinctInGrid ==
    /\ \A i \in 1 .. Len(snake) : InGrid(snake[i])
    /\ \A i, j \in 1 .. Len(snake) : i # j => snake[i] # snake[j]

\* C1 witness: ticks have committed moves, the snake has grown and turned
\* so that its head lies next to a body cell that is not its neck.
C1_Witness ==
    /\ state = "playing" /\ pc = "frame"
    /\ Len(snake) >= 2 * START_LEN
    /\ \E i \in 4 .. Len(snake) :
          Abs(snake[1][1] - snake[i][1]) + Abs(snake[1][2] - snake[i][2]) = 1

\* C2: in every state between two handler calls the food cell is not a cell
\* of the snake.  (A step() that never returns is C4's subject.)
C2_FoodNotOnSnake == pc # "hung" => food \notin SnakeCells(snake)

\* C2 witness: food has been eaten and relocated three times.
C2_Witness == score >= 3 /\ pc # "hung" /\ Len(snake) >= 2 * START_LEN

\* C3 (as claimed): a tick with no growth pending whose new head is the current
\* tail cell commits the move and the game stays in Playing.
C3_TailCellIsFree ==
    [][ ( /\ StepTaken /\ state = "playing" /\ grow = 0
          /\ NewHead(snake, next_dir) = snake[Len(snake)] )
        => ( /\ state' = "playing"
             /\ snake' = <<NewHead(snake, next_dir)>> \o SubSeq(snake, 1, Len(snake) - 1) )
      ]_vars

\* C4 (as claimed): every call of step() terminates, also the one after which
\* the snake occupies every cell of the grid.
C4_StepTerminates == pc # "hung"

\* C5: the score changes only in a tick whose new head is the food cell, then
\* by exactly +1, and in reset(), which starts the next session at 0.
C5_ScoreSteps ==
    [][ /\ (StepTaken /\ ~Collides(NewHead(snake, next_dir), snake)
              /\ NewHead(snake, next_dir) = food) => score' = score + 1
        /\ (score' # score /\ ~ResetTaken) =>
              ( /\ StepTaken
                /\ NewHead(snake, next_dir) = food
                /\ score' = score + 1 )
        /\ ResetTaken => score' = 0
      ]_vars

\* C5 witness: the score has been raised twice in a session.
C5_Witness == score >= 2 /\ state = "playing"

\* C6: the queued heading is never the negation of the current heading, and a
\* poll whose candidate is that negation leaves the queued heading unchanged.
C6_ReversalGuard ==
    /\ [](next_dir # Neg(dir))
    /\ [][ (PollTaken /\ want' = Neg(dir)) => next_dir' = next_dir ]_vars

\* C6 witness: a poll has just rejected a reversal while another heading was
\* queued by an earlier poll of the same tick interval.
C6_Witness ==
    /\ pc = "ticks" /\ state = "playing"
    /\ want = Neg(dir) /\ next_dir # dir /\ next_dir # want

----------------------------------------------------------------------------
(* SpecBoard: the leaderboard over several sessions of run(), frame by     *)
(* frame with the fixed inputs above: a session ends at its third tick     *)
(* with score 0, 1 or 2, and the editor leaves blanks in the buffer.  The  *)
(* timed screens get no QUIT event either.  The clock runs for MaxFrames   *)
(* lock-out periods.                                                       *)

MaxFrames == 6
MaxTime == MaxFrames * GAMEOVER_LOCK_MS
MaxSessionScore == 4

Digits == <<"0", "1", "2", "3", "4", "5", "6", "7", "8", "9">>

\* The name of the i-th record of a file: five characters, one too many.
FileName(i) == <<"N", Digits[(i \div 10) + 1], Digits[(i % 10) + 1], "X", "Y">>

\* Score patterns of a file of n records: level, falling, rising, mixed.
FileScore(p, i, n) ==
    CASE p = "level"   -> 2
      [] p = "falling" -> 1 + ((n - i) \div 4)
      [] p = "rising"  -> 1 + (i \div 4)
      [] p = "mixed"   -> 1 + (i % 3)

FileOf(p, n) == Document("list", [i \in 1 .. n |-> Entry(FileName(i), FileScore(p, i, n))])

BoardFiles ==
    { Document("absent", <<>>), Document("notlist", <<>>),
      Document("badrecord", <<Entry(A4, 1)>>) }
    \cup { FileOf(p, n) : p \in {"level", "falling", "rising", "mixed"},
                          n \in {0, 1, MAX_SCORES - 1, MAX_SCORES, MAX_SCORES + 2} }

InitBoard ==
    /\ \E doc \in BoardFiles : InitWith(doc, FALSE)
    /\ food = <<(GRID_W \div 2) + 1, GRID_H \div 2>>

\* The clock readings of the next frame: one lock-out period later.
BoardTimes == {t \in {now + GAMEOVER_LOCK_MS} : t <= MaxTime}

\* The clock reading of the next frame, d later: the playing frames are
\* STEP_MS apart, the editor's UI_REPEAT_MS.
BoardTimesAfter(d) == {t \in {now + d} : t <= MaxTime}

NextBoard ==
    \/ \E t \in BoardTimes : StraightStart(t)
    \/ \E t \in BoardTimesAfter(STEP_MS) : StraightPoll(t)
    \/ StraightStep
    \/ FramePlayingEnd(FALSE)
    \/ \E t \in BoardTimes : FrameTopCelebrate(FALSE, t)
    \/ \E t \in BoardTimesAfter(UI_REPEAT_MS) : EditRight(t)
    \/ \E t \in BoardTimesAfter(UI_REPEAT_MS) : EditBlank(t)
    \/ \E t \in BoardTimesAfter(UI_REPEAT_MS) : FrameEnterScoreSubmit(t)
    \/ \E t \in BoardTimes : FramePostSubmit(FALSE, t)
    \/ \E t \in BoardTimes : FrameGameOver(FALSE, t)

SpecBoard == InitBoard /\ [][NextBoard]_vars

----------------------------------------------------------------------------
(* Claims about the leaderboard, checked under SpecBoard *)

ScoresOf(tbl) == {tbl[i].score : i \in 1 .. Len(tbl)}
MinScore(tbl) == CHOOSE m \in ScoresOf(tbl) : \A x \in ScoresOf(tbl) : m <= x
MaxScore(tbl) == CHOOSE m \in ScoresOf(tbl) : \A x \in ScoresOf(tbl) : m >= x

\* The scores _qualifies() and _is_top_score() are asked about.
ProbeScores == -1 .. MaxSessionScore + 1

\* A transition that is a call of _commit_score().
CommitTaken == state = "enter_score" /\ state' = "post_submit"

\* tbl without its k-th entry.
Without(tbl, k) == SubSeq(tbl, 1, k - 1) \o SubSeq(tbl, k + 1, Len(tbl))

\* C7: the in-memory leaderboard is sorted in non-increasing order of score
\* and has at most MAX_SCORES entries, after load_scores() and every commit.
C7_SortedAndCapped ==
    /\ Len(scores) <= MAX_SCORES
    /\ \A i \in 1 .. Len(scores) - 1 : scores[i].score >= scores[i + 1].score

\* C7 witness: a full table holding different scores after two commits.
C7_Witness ==
    /\ state = "post_submit"
    /\ Len(scores) = MAX_SCORES
    /\ scores[1].score > scores[MAX_SCORES].score
    /\ Cardinality({i \in 1 .. Len(scores) : Len(scores[i].name) < 4
                                              \/ scores[i].name = A4}) >= 2

\* C8: _qualifies(s) is false for s <= 0; for s > 0 it is true on a table of
\* fewer than 10 entries and otherwise exactly when s is greater than the
\* score of the last entry, which is the minimum.  The screen a session ends
\* on follows it.
C8_Qualifies ==
    /\ \A s \in ProbeScores :
          Qualifies(scores, s) =
             ( /\ s > 0
               /\ \/ Len(scores) < 10
                  \/ ( /\ s > scores[Len(scores)].score
                       /\ scores[Len(scores)].score = MinScore(scores) ) )
    /\ \A s \in ProbeScores :
          (Len(scores) = 10 /\ s > 0) => (Qualifies(scores, s) <=> s > MinScore(scores))
    /\ state = "gameover" =>
          (score <= 0 \/ (Len(scores) = 10 /\ score <= MinScore(scores)))
    /\ state \in {"topcelebrate", "enter_score"} =>
          (score > 0 /\ (Len(scores) < 10 \/ score > MinScore(scores)))

\* C8 witness: a session with a positive score equal to the minimum of a full
\* table has ended on the gameover screen.
C8_Witness ==
    /\ state = "gameover" /\ score > 0
    /\ Len(scores) = 10 /\ score = MinScore(scores)
    /\ MaxScore(scores) > MinScore(scores)

\* C9: _is_top_score(s) is (s > 0) on the empty table and otherwise true
\* exactly when s is at least the score of the first entry, which is the
\* maximum: a tie with the best counts.  The celebration screen follows it.
C9_IsTopScore ==
    /\ \A s \in ProbeScores :
          IsTopScore(scores, s) =
             IF Len(scores) = 0 THEN s > 0
             ELSE s >= scores[1].score /\ scores[1].score = MaxScore(scores)
    /\ state = "topcelebrate" =>
          (score > 0 /\ (Len(scores) = 0 \/ score >= MaxScore(scores)))

\* C9 witness: a session that tied the best entry of a table holding
\* different scores is on the celebration screen.
C9_Witness ==
    /\ state = "topcelebrate"
    /\ Len(scores) > 1 /\ score = MaxScore(scores)
    /\ MaxScore(scores) > MinScore(scores)

\* C10: a commit on a full table keeps 10 entries, among them the new entry;
\* the entry lost is the previous last one, of the previous minimum score;
\* the other previous entries keep their order; the new entry stands behind
\* every entry of at least its score and before every entry of less.
C10_CommitOnFullTable ==
    [][ (CommitTaken /\ Len(scores) = MAX_SCORES /\ Qualifies(scores, score)) =>
          /\ Len(scores') = MAX_SCORES
          /\ scores[MAX_SCORES].score = MinScore(scores)
          /\ \E k \in 1 .. MAX_SCORES :
                /\ scores'[k] = Entry(EntryNameOf(entry_name), score)
                /\ Without(scores', k) = SubSeq(scores, 1, MAX_SCORES - 1)
                /\ \A i \in 1 .. k - 1 : scores'[i].score >= score
                /\ \A i \in k + 1 .. MAX_SCORES : scores'[i].score < score
      ]_vars

\* C10 witness: a commit on a full table has put the new entry between an
\* entry of its own score and an entry of a smaller score.
C10_Witness ==
    /\ state = "post_submit" /\ Len(scores) = MAX_SCORES
    /\ disk.kind = "list" /\ Len(disk.items) = MAX_SCORES
    /\ \E k \in 2 .. MAX_SCORES - 1 :
          /\ scores[k] = Entry(EntryNameOf(entry_name), score)
          /\ scores[k - 1].score = score
          /\ scores[k - 1].name # scores[k].name
          /\ scores[k + 1].score < score

----------------------------------------------------------------------------
(* SpecSave: the leaderboard file over several processes.  _commit_score() *)
(* is split at the steps of save_scores(); a step can raise, the process   *)
(* can be killed between two steps, and the program can be started again:  *)
(* the next process is followed through __init__(), which loads the file.  *)
(* Sessions and name editing run frame by frame as in SpecBoard.           *)

SavePositions == {"save_created", "save_writing", "save_written", "save_moved"}

\* save_scores(): open(tmppath, "w") and json.dump() write to the temp file;
\* the target keeps its content while text is the content of the temp file.
TargetWhileWritingInPlace(target, text) == text
TargetWhileWriting(target, text) == target

\* The text json.dump() has written when it is cut off: a beginning of the
\* text of tbl.
PartialText(tbl) == Document("partial", SubSeq(tbl, 1, Len(tbl) - 1))

\* handle_input_entry() on KEYDOWN K_UP with the cursor on the submit slot:
\* _commit_score() up to the mkstemp() of save_scores().  With ok the temp
\* file is created, of no bytes; otherwise ensure_save_dir() or mkstemp()
\* raises, outside the try block.
CommitScoreBegin(ok, t) ==
    /\ pc = "frame" /\ state = "enter_score"
    /\ entry_idx = 4
    /\ t - last_ui_nav >= UI_REPEAT_MS
    /\ now' = t
    /\ running' = TRUE
    /\ last_ui_nav' = t
    /\ scores' = Committed(scores, EntryNameOf(entry_name), score)
    /\ IF ok
       THEN tmpfile' = Document("empty", <<>>) /\ pc' = "save_created"
       ELSE tmpfile' = tmpfile /\ pc' = "raised"
    /\ UNCHANGED <<worldVars, headingVars, accum, state, entry_name, entry_idx,
                   start_need_neutral, timerVars, disk, js>>

\* json.dump() has written a part of the text.
SaveScoresWritePart ==
    /\ pc = "save_created"
    /\ tmpfile' = PartialText(scores)
    /\ disk' = TargetWhileWriting(disk, tmpfile')
    /\ pc' = "save_writing"
    /\ UNCHANGED <<worldVars, headingVars, accum, state, entryVars,
                   start_need_neutral, timerVars, scores, js, now, running>>

\* json.dump() has written the whole text and the with block has closed it.
SaveScoresWrite ==
    /\ pc \in {"save_created", "save_writing"}
    /\ tmpfile' = SaveScores(scores)
    /\ disk' = TargetWhileWriting(disk, tmpfile')
    /\ pc' = "save_written"
    /\ UNCHANGED <<worldVars, headingVars, accum, state, entryVars,
                   start_need_neutral, timerVars, scores, js, now, running>>

\* shutil.move(tmppath, path): one rename inside the directory.
SaveScoresMove ==
    /\ pc = "save_written"
    /\ disk' = tmpfile
    /\ tmpfile' = Document("absent", <<>>)
    /\ pc' = "save_moved"
    /\ UNCHANGED <<worldVars, headingVars, accum, state, entryVars,
                   start_need_neutral, timerVars, scores, js, now, running>>

\* The finally block finds no temp file; save_scores() returns and
\* _commit_score() sets the screen and its timer.
CommitScoreEnd ==
    /\ pc = "save_moved"
    /\ state' = "post_submit"
    /\ post_until' = now + GAMEOVER_LOCK_MS
    /\ start_need_neutral' = TRUE
    /\ pc' = AfterFrame(running)
    /\ UNCHANGED <<worldVars, headingVars, accum, entryVars, gameover_until,
                   topcelebrate_until, boardVars, js, now, running>>

\* open(), json.dump() or shutil.move() raises: the finally block removes the
\* temp file and the exception leaves save_scores(), _commit_score(),
\* handle_input_entry() and run(), none of which catches it.
SaveScoresRaises ==
    /\ pc \in {"save_created", "save_writing", "save_written"}
    /\ tmpfile' = Document("absent", <<>>)
    /\ pc' = "raised"
    /\ UNCHANGED <<worldVars, headingVars, accum, state, entryVars,
                   start_need_neutral, timerVars, scores, disk, js, now, running>>

\* The process is killed between two steps of save_scores().
Killed ==
    /\ pc \in SavePositions
    /\ pc' = "killed"
    /\ UNCHANGED <<worldVars, headingVars, accum, state, entryVars,
                   start_need_neutral, timerVars, boardVars, js, now, running>>

\* The program is started again: SnakeGame.__init__() loads the file; f is
\* the cell random_empty_cell() returns.  The files stay as they were left.
Restarted(f) ==
    /\ pc \in {"killed", "raised"}
    /\ scores' = LoadScores(disk)
    /\ ResetFields
    /\ food' = f
    /\ want' = RIGHT
    /\ state' = "menu"
    /\ last_ui_nav' = 0
    /\ gameover_until' = 0 /\ post_until' = 0 /\ topcelebrate_until' = 0
    /\ now' = 0
    /\ running' = TRUE
    /\ pc' = "loaded"
    /\ UNCHANGED <<disk, tmpfile, js>>

\* Records as they can stand in a file written by hand or by another program.
NoName == [score |-> 3]
NoScore == [name |-> FileName(1)]
FloatScore == [name |-> FileName(2), score_tenths |-> 27]
NegativeFloatScore == [name |-> FileName(3), score_tenths |-> 0 - 15]
NotADict == [bad |-> "notdict"]
NoNumber == [name |-> A4, bad |-> "score"]

SaveFiles ==
    { Document("absent", <<>>), Document("notlist", <<>>),
      Document("empty", <<>>), PartialText(Flat(2, A4, 1)),
      Document("list", <<Entry(FileName(1), 2), NotADict>>),
      Document("list", <<NoNumber, Entry(FileName(1), 2)>>),
      Document("list", <<NoName, NoScore, FloatScore, NegativeFloatScore>>),
      FileOf("mixed", 2), FileOf("falling", MAX_SCORES) }

InitSave ==
    /\ \E doc \in SaveFiles : InitWith(doc, FALSE)
    /\ food = StartFood

NextSave ==
    \/ \E t \in BoardTimes : StraightStart(t)
    \/ \E t \in BoardTimesAfter(STEP_MS) : StraightPoll(t)
    \/ StraightStep
    \/ FramePlayingEnd(FALSE)
    \/ \E t \in BoardTimes : FrameTopCelebrate(FALSE, t)
    \/ \E t \in BoardTimesAfter(UI_REPEAT_MS) : EditRight(t)
    \/ \E t \in BoardTimesAfter(UI_REPEAT_MS) : EditBlank(t)
    \/ \E ok \in BOOLEAN, t \in BoardTimesAfter(UI_REPEAT_MS) : CommitScoreBegin(ok, t)
    \/ SaveScoresWritePart
    \/ SaveScoresWrite
    \/ SaveScoresMove
    \/ CommitScoreEnd
    \/ SaveScoresRaises
    \/ Killed
    \/ Restarted(StartFood)
    \/ \E t \in BoardTimes : FramePostSubmit(FALSE, t)
    \/ \E t \in BoardTimes : FrameGameOver(FALSE, t)

SpecSave == InitSave /\ [][NextSave]_vars

----------------------------------------------------------------------------
(* Claims about persistence, checked under SpecSave *)

\* The name the buffer " AAA" is committed under.
AAA == <<"A", "A", "A">>

\* The process has just run __init__(): at the start, or started again.
JustLoaded == pc = "loaded" \/ (pc = "frame" /\ now = 0)

\* The file is a JSON list each of whose elements load_scores() converts.
WellFormed(doc) ==
    /\ doc.kind = "list"
    /\ \A i \in 1 .. Len(doc.items) : "bad" \notin DOMAIN doc.items[i]

\* C11: between two frames, so after every sequence of successful commits,
\* load_scores() of the file gives the in-memory table, entry by entry; right
\* after a commit the file is the list save_scores() wrote from that table.
C11_SaveLoadRoundTrip ==
    /\ pc = "frame" => LoadScores(disk) = scores
    /\ (pc = "frame" /\ state = "post_submit") => disk = SaveScores(scores)

\* C11 witness: two commits have left entries of equal score under different
\* names, one of them shortened by strip().
C11_Witness ==
    /\ pc = "frame" /\ state = "post_submit"
    /\ \E i, j \in 1 .. Len(scores) :
          /\ i < j /\ scores[i].score = scores[j].score
          /\ {scores[i].name, scores[j].name} = {A4, AAA}

\* C12: every step of save_scores(), and a kill between two of them, leaves
\* the target file as it was or replaces it by the complete new table.
C12_TargetOldOrNew ==
    [][ disk' = disk \/ (pc = "save_written" /\ disk' = SaveScores(scores')) ]_vars

\* C12 witness: the process was killed while the temp file held a part of
\* the text; the target is a complete list that is not the new table.
C12_Witness ==
    /\ pc = "killed"
    /\ tmpfile.kind = "partial"
    /\ disk.kind = "list" /\ Len(disk.items) >= 1
    /\ disk # SaveScores(scores)

\* C13: load_scores() gives the empty table for a missing file, a text that
\* is no JSON, a document that is no list and a list holding a record it
\* cannot convert; for a well-formed list it gives as many entries as the
\* list has, up to MAX_SCORES.  Every name of the table has at most 4
\* characters and every score is an integer.
C13_LoadFailsOpen ==
    /\ (JustLoaded /\ ~WellFormed(disk)) => scores = <<>>
    /\ (JustLoaded /\ WellFormed(disk)) =>
          Len(scores) = IF Len(disk.items) < MAX_SCORES THEN Len(disk.items)
                        ELSE MAX_SCORES
    /\ \A i \in 1 .. Len(scores) :
          Len(scores[i].name) <= 4 /\ scores[i].score \in Int

\* C13 witness: a process killed before the move left a list with a record
\* that cannot be converted behind a good one; the next process loaded it.
C13_Witness ==
    /\ pc = "loaded"
    /\ disk.kind = "list" /\ Len(disk.items) >= 2
    /\ "bad" \notin DOMAIN disk.items[1]
    /\ \E i \in 1 .. Len(disk.items) : "bad" \in DOMAIN disk.items[i]
    /\ scores = <<>>

\* C14 (as claimed): an exception of save_scores() inside _commit_score()
\* does not end the session: no exception leaves run().
C14_SaveFailureNonFatal == pc # "raised"

----------------------------------------------------------------------------
(* SpecLoop: run() frame by frame with the wall clock: every branch of the *)
(* loop, the real step() on the grid, SPACE, and in every branch a QUIT    *)
(* event or K_ESCAPE, which ends the loop after the frame.  get_ticks()    *)
(* advances by the frame delta.  Steering is by two keys only, which keeps *)
(* the sessions short; in the editor the cursor is moved to the submit     *)
(* slot, a cooldown per frame, and the name is submitted or cancelled.     *)

MaxLoopFrames == 6

\* Frame deltas of the frames that run no tick: half a lock-out period.
LongDt == GAMEOVER_LOCK_MS \div 2
MaxLoopTime == MaxLoopFrames * LongDt

\* The clock readings of the next frame for the deltas in D.
LoopTimes(D) == {t \in {now + d : d \in D} : t <= MaxLoopTime}

\* Keyboard snapshots of the playing frames; the stick is left neutral there.
LoopKeys == {{}, {"up"}}
LoopCandidates == {Candidate(keys, 0, 0, next_dir) : keys \in LoopKeys}

\* The key of an editor frame: K_RIGHT up to the submit slot, K_UP on it.
LoopKey == IF entry_idx < 4 THEN "right" ELSE "up"

\* The events of an editor frame: the key, K_ESCAPE or a QUIT event, and the
\* key followed by a QUIT event.  The stick is left neutral there.
LoopEvents == {<<LoopKey>>, <<"esc">>, <<"quit">>, <<LoopKey, "quit">>}

InitLoop == InitWith(WorldFile, TRUE) /\ food \in LoopFoods

\* A start draws its food from LoopFoods; step() draws any free cell.
NextLoop ==
    \/ \E quit, enter \in BOOLEAN, a0, a1 \in AxisVals, t \in LoopTimes({LongDt}) :
          /\ FrameMenu(quit, enter, a0, a1, t)
          /\ state' = "playing" => food' \in LoopFoods
    \/ \E quit \in BOOLEAN, w \in LoopCandidates, d \in DtVals :
          now + d <= MaxLoopTime /\ FramePlayingPoll(quit, w, d, now + d)
    \/ Step
    \/ \E space \in BOOLEAN : FramePlayingEnd(space)
    \/ \E quit, space \in BOOLEAN, t \in LoopTimes({LongDt}) :
          FramePaused(quit, space, t)
    \/ \E quit \in BOOLEAN, t \in LoopTimes({LongDt}) : FrameTopCelebrate(quit, t)
    \/ \E evs \in LoopEvents, t \in LoopTimes({UI_REPEAT_MS, LongDt}) :
          FrameEnterScore(evs, 0, 0, t)
    \/ \E quit \in BOOLEAN, t \in LoopTimes({LongDt}) : FramePostSubmit(quit, t)
    \/ \E quit \in BOOLEAN, t \in LoopTimes({LongDt}) : FrameGameOver(quit, t)

SpecLoop == InitLoop /\ [][NextLoop]_vars

----------------------------------------------------------------------------
(* Claims about the screen flow and the clock, checked under SpecLoop *)

\* A transition that is a call of step() whose new head hits a wall or the body.
CollisionTaken == StepTaken /\ Collides(NewHead(snake, next_dir), snake)

\* C15: a tick that collides sets the screen to gameover when the score does
\* not qualify, to topcelebrate when it qualifies and is a top score, and to
\* enter_score when it qualifies and is no top score, for the leaderboard of
\* that moment.
C15_BranchOnCollision ==
    [][ CollisionTaken =>
          /\ (~Qualifies(scores, score)) => state' = "gameover"
          /\ (Qualifies(scores, score) /\ IsTopScore(scores, score)) =>
                state' = "topcelebrate"
          /\ (Qualifies(scores, score) /\ ~IsTopScore(scores, score)) =>
                state' = "enter_score"
      ]_vars

\* C15 witness: a session that ate twice has tied the best entry of the table
\* and collided: the celebration screen is up.
C15_Witness ==
    /\ state = "topcelebrate" /\ pc = "frame"
    /\ Len(scores) >= 1 /\ score = scores[1].score
    /\ Len(snake) > START_LEN

\* The transitions of the screen state the table lists.
ListedTransitions ==
    { <<"menu", "playing">>, <<"playing", "paused">>, <<"playing", "gameover">>,
      <<"playing", "topcelebrate">>, <<"playing", "enter_score">>,
      <<"paused", "playing">>, <<"gameover", "menu">>,
      <<"topcelebrate", "enter_score">>, <<"enter_score", "post_submit">>,
      <<"enter_score", "gameover">>, <<"post_submit", "menu">> }

\* C16 (as claimed): over a frame the screen state stays or changes by a
\* listed transition (a playing frame begins in playing and ends where the
\* branch leaves it), and a playing frame in which a tick collided does not
\* end in paused or playing.
C16_TransitionTable ==
    [][ /\ (pc = "frame" /\ pc' \in {"frame", "quit"}) =>
              (state' = state \/ <<state, state'>> \in ListedTransitions)
        /\ (pc = "ticks" /\ pc' \in {"frame", "quit"}) =>
              /\ state' = "playing" \/ <<"playing", state'>> \in ListedTransitions
              /\ state # "playing" => state' \notin {"paused", "playing"}
      ]_vars

\* C17 (as claimed): whenever a call of step() begins the screen state is
\* playing.
C17_StepOnlyWhilePlaying == [][ StepTaken => state = "playing" ]_vars

\* C18 (as claimed): once the screen state is gameover or post_submit it
\* changes only to menu, and only at a clock reading that has reached the
\* timer set with it.
C18_LockOut ==
    [][ (state \in {"gameover", "post_submit"} /\ state' # state) =>
          /\ state' = "menu"
          /\ now' >= (IF state = "gameover" THEN gameover_until ELSE post_until)
      ]_vars

\* C19: every change of the screen state to menu, and __init__(), sets the
\* need-neutral flag.  While the flag is set a menu frame without ENTER never
\* starts a game; a frame whose stick reading is outside the dead zone keeps
\* the flag; only a menu frame that reads the stick inside the dead zone
\* clears it, and that frame stays in the menu.  With ENTER the frame starts
\* a game whatever the stick and the flag.
C19_NeutralThenMove ==
    /\ []((pc = "frame" /\ state = "menu" /\ now = 0) => start_need_neutral)
    /\ [][ /\ (state # "menu" /\ state' = "menu") => start_need_neutral'
           /\ (state = "menu" /\ start_need_neutral) =>
                 \A a0, a1 \in AxisVals :
                    \A q \in BOOLEAN : FrameMenu(q, FALSE, a0, a1, now') => state' = "menu"
           /\ (state = "menu" /\ start_need_neutral) =>
                 \A a0, a1 \in AxisVals :
                    \A q \in BOOLEAN :
                       ((Abs(a0) >= 2 \/ Abs(a1) >= 2) /\ FrameMenu(q, FALSE, a0, a1, now'))
                          => start_need_neutral'
           /\ (start_need_neutral /\ ~start_need_neutral') =>
                 /\ state = "menu" /\ state' = "menu"
                 /\ \E q \in BOOLEAN, a0, a1 \in AxisVals :
                       /\ Abs(a0) < 2 /\ Abs(a1) < 2
                       /\ FrameMenu(q, FALSE, a0, a1, now')
           /\ (state = "menu" /\ pc = "frame") =>
                 \A a0, a1 \in AxisVals :
                    \A q \in BOOLEAN :
                       FrameMenu(q, TRUE, a0, a1, now') => state' = "playing"
         ]_vars

\* C19 witness: in a second visit of the menu, after a locked gameover
\* screen, a neutral reading has cleared the flag.
C19_Witness ==
    /\ state = "menu" /\ pc = "frame"
    /\ ~start_need_neutral
    /\ gameover_until > 0 /\ now >= gameover_until

\* C20 (as claimed): the accumulator is unchanged in every frame that does
\* not begin in playing.
C20_AccumUnchangedOutsidePlaying ==
    [][ (pc = "frame" /\ state # "playing") => accum' = accum ]_vars

\* C20 (amended): a playing frame adds its delta to the accumulator, every
\* tick takes STEP_MS from it, ticks run as long as it holds STEP_MS or more
\* and the frame ends with what is left, so floor((a + dt) / STEP_MS) ticks
\* run and (a + dt) mod STEP_MS remains; between frames 0 <= accum < STEP_MS.
\* A frame that does not begin in playing leaves the accumulator unchanged,
\* except the menu frame that starts a game, where reset() sets it to 0.
C20_FixedStepClock ==
    /\ [](pc \in {"frame", "quit"} => (0 <= accum /\ accum < STEP_MS))
    /\ [][ /\ PollTaken => accum' = accum + (now' - now)
           /\ StepTaken =>
                 /\ accum' = accum - STEP_MS
                 /\ accum' \div STEP_MS = (accum \div STEP_MS) - 1
                 /\ accum' % STEP_MS = accum % STEP_MS
           /\ (pc = "ticks" /\ pc' \in {"frame", "quit"}) =>
                 (accum < STEP_MS /\ accum' = accum)
           /\ (pc = "ticks" /\ accum >= STEP_MS) => (pc' = "ticks" /\ StepTaken)
           /\ (pc = "frame" /\ state # "playing") =>
                 (accum' = accum \/ (ResetTaken /\ accum' = 0))
         ]_vars

\* C20 witness: a game resumed from a pause is between two frames with half
\* a step carried over, after a frame that ran two ticks.
C20_Witness ==
    /\ state = "playing" /\ pc = "frame"
    /\ accum = STEP_MS \div 2
    /\ Len(snake) = START_LEN /\ snake[1] = <<GRID_W - 1, GRID_H \div 2>>
    /\ now > 2 * LongDt

----------------------------------------------------------------------------
(* SpecEntry: the name editor.  A session with the fixed inputs eats once  *)
(* and ends at its third tick with score 1, which qualifies below the top  *)
(* entry; the frames of the enter_score branch follow with every event     *)
(* list and stick position below, with and without a joystick, at frame    *)
(* deltas of half a cooldown and a cooldown.  K_ESCAPE or a QUIT event     *)
(* ends the loop after its frame.                                          *)

MaxEntryFrames == 6
\* The editor opens at SessionEnd: the menu frame at LongDt, three ticks.
SessionEnd == LongDt + 3 * STEP_MS
MaxEntryTime == SessionEnd + MaxEntryFrames * UI_REPEAT_MS

EntryDts == {UI_REPEAT_MS \div 2, UI_REPEAT_MS}
EntryTimes == {t \in {now + d : d \in EntryDts} : t <= MaxEntryTime}

\* The events of a frame: none, one key, a key twice, a key and K_ESCAPE in
\* either order, a QUIT event, or a key and a QUIT event.
EntryKeys == {"left", "right", "up", "down", "esc"}
EntryEvents ==
    {<<>>} \cup {<<k>> : k \in EntryKeys} \cup {<<k, k>> : k \in EntryKeys}
           \cup {<<k, "esc">> : k \in EntryKeys} \cup {<<"esc", k>> : k \in EntryKeys}
           \cup {<<"quit">>} \cup {<<k, "quit">> : k \in EntryKeys}

\* Readings <<get_axis(0), get_axis(1)>>: neutral, below the threshold, and
\* the four deflections; neutral only when no joystick is attached.
EntrySticks ==
    IF js THEN {<<0, 0>>, <<5, 5>>, <<0 - 10, 0>>, <<6, 0>>, <<0, 0 - 10>>, <<0, 6>>}
    ELSE {<<0, 0>>}

InitEntry ==
    /\ \E j \in BOOLEAN : InitWith(WorldFile, j)
    /\ food = StartFood

NextEntry ==
    \/ now = 0 /\ StraightStart(LongDt) /\ food' = StartFood
    \/ StraightPoll(now + STEP_MS)
    \/ StraightStep /\ food' \in {food, <<0, 0>>}
    \/ FramePlayingEnd(FALSE)
    \/ \E evs \in EntryEvents, st \in EntrySticks, t \in EntryTimes :
          FrameEnterScore(evs, st[1], st[2], t)

SpecEntry == InitEntry /\ [][NextEntry]_vars

----------------------------------------------------------------------------
(* Name entry claims *)

\* A frame of the enter_score branch in which _commit_score() ran.
EntryCommitTaken == pc = "frame" /\ state = "enter_score" /\ scores' # scores

\* Every symbol of n is in the charset.
InCharset(n) == \A i \in 1 .. Len(n) : \E j \in 1 .. Len(Charset) : Charset[j] = n[i]

Blank4 == <<" ", " ", " ", " ">>

\* C21: every entry appended by _commit_score() has a name of exactly 4
\* symbols of the charset: the joined entry buffer, or AAAA when the buffer
\* is entirely blank.
C21_CommittedName ==
    [][EntryCommitTaken =>
          LET n == IF entry_name = Blank4 THEN A4 ELSE entry_name
          IN  /\ Len(n) = 4 /\ InCharset(n)
              /\ \E i \in 1 .. Len(scores') : scores'[i] = Entry(n, score)
              /\ \A i \in 1 .. Len(scores') :
                    Len(scores'[i].name) = 4 /\ InCharset(scores'[i].name)]_vars

\* A frame of the enter_score branch in which an editor action ran: the
\* cursor moved, a character changed, or the entry was submitted.
EditorActed ==
    /\ pc = "frame" /\ state = "enter_score"
    /\ (entry_idx' # entry_idx \/ entry_name' # entry_name \/ scores' # scores)

\* The slots in which the buffers m and n differ.
SlotsChanged(m, n) == {i \in 1 .. 4 : m[i] # n[i]}

\* The frame ran exactly one editor action.
OneEditorAction ==
    \/ /\ Abs(entry_idx' - entry_idx) = 1
       /\ entry_name' = entry_name /\ scores' = scores
    \/ /\ Cardinality(SlotsChanged(entry_name, entry_name')) = 1
       /\ entry_idx' = entry_idx /\ scores' = scores
    \/ /\ scores' # scores
       /\ entry_idx' = entry_idx /\ entry_name' = entry_name

\* C22: two successive editor actions, by keys or by the stick, are at least
\* UI_REPEAT_MS apart: a frame with an editor action runs exactly one, at
\* least UI_REPEAT_MS after the time last_ui_nav holds, and stores its own
\* time there; last_ui_nav never moves back while the editor is open.
C22_RateLimit ==
    /\ [][EditorActed =>
             /\ OneEditorAction
             /\ now' - last_ui_nav >= UI_REPEAT_MS
             /\ last_ui_nav' = now']_vars
    /\ [][(pc = "frame" /\ state = "enter_score") =>
             (last_ui_nav <= last_ui_nav' /\ last_ui_nav' <= now')]_vars

\* Six editor actions, each UI_REPEAT_MS after the one before: a character
\* change, four cursor moves and the submit.
C22_Witness ==
    /\ state = "post_submit" /\ js
    /\ entry_name # A4
    /\ last_ui_nav = SessionEnd + (UI_REPEAT_MS \div 2) + 5 * UI_REPEAT_MS

\* k successive calls of _ui_change_letter(delta).
RECURSIVE ChangeLetterTimes(_, _, _, _)
ChangeLetterTimes(name, idx, delta, k) ==
    IF k = 0 THEN name
    ELSE ChangeLetterTimes(UiChangeLetter(name, idx, delta), idx, delta, k - 1)

\* The buffer with the symbol c in the slot under the cursor.
WithSymbol(c) ==
    IF entry_idx < 4 THEN [entry_name EXCEPT ![entry_idx + 1] = c] ELSE entry_name

\* C26: on a letter slot _ui_change_letter(+1) then (-1) restores the slot,
\* as does (-1) then (+1), for every symbol of the charset, and 37 changes
\* in one direction restore it; on the submit slot a change does nothing;
\* the cursor stays in 0..4 under any cursor move.
C26_CycleAndCursor ==
    /\ \A j \in 1 .. Len(Charset) :
          LET n == WithSymbol(Charset[j])
          IN  /\ UiChangeLetter(UiChangeLetter(n, entry_idx, 1), entry_idx, 0 - 1) = n
              /\ UiChangeLetter(UiChangeLetter(n, entry_idx, 0 - 1), entry_idx, 1) = n
              /\ entry_idx < 4 => UiChangeLetter(n, entry_idx, 1) # n
    /\ \A d \in {0 - 1, 1} :
          /\ ChangeLetterTimes(entry_name, entry_idx, d, Len(Charset)) = entry_name
          /\ UiChangeLetter(entry_name, 4, d) = entry_name
          /\ UiMoveCursor(entry_idx, d) \in 0 .. 4
          /\ Abs(UiMoveCursor(entry_idx, d) - entry_idx) <= 1
    /\ Len(Charset) = 37
    /\ entry_idx \in 0 .. 4

\* The editor wrapped slot 0 from A back to the blank, stepped slot 1
\* forward and moved the cursor to the submit slot.
C26_Witness ==
    /\ state = "enter_score"
    /\ entry_name = <<" ", "B", "A", "A">>
    /\ entry_idx = 4

\* The table grows by the one entry of the single session of SpecEntry.
CommittedAtMostOnce == Len(scores) <= Len(WorldFile.items) + 1

\* C29: on the topcelebrate and enter_score screens the score qualifies;
\* _commit_score() runs at most once in a session and only while the screen
\* is enter_score, so never after K_ESCAPE has cancelled the entry in the
\* same frame (a frame that leaves post_submit ran the commit last, and a
\* cancel before it is seen by the gameover timer it started); right after
\* it the entry is in the table.
C29_CommitDiscipline ==
    /\ [](state \in {"topcelebrate", "enter_score"} => Qualifies(scores, score))
    /\ []CommittedAtMostOnce
    /\ [][scores' # scores =>
             /\ state = "enter_score"
             /\ state' = "post_submit" => gameover_until' = gameover_until
             /\ \E i \in 1 .. Len(scores') :
                   scores'[i] = Entry(EntryNameOf(entry_name), score)]_vars

\* C30: with a joystick attached and neutral, a frame without key events
\* (a poll of the neutral stick) leaves last_ui_nav alone, so that a
\* navigation key pressed UI_REPEAT_MS or more after the last editor action
\* takes effect: K_RIGHT moves the cursor, K_UP changes the letter.
C30_CooldownOnlyByActions ==
    /\ [][(js /\ FrameEnterScore(<<>>, 0, 0, now')) =>
             last_ui_nav' = last_ui_nav]_vars
    /\ [][(js /\ entry_idx < 4 /\ now' - last_ui_nav >= UI_REPEAT_MS) =>
             /\ FrameEnterScore(<<"right">>, 0, 0, now') => entry_idx' = entry_idx + 1
             /\ FrameEnterScore(<<"up">>, 0, 0, now') => entry_name' # entry_name]_vars

----------------------------------------------------------------------------
(* Claims about the world inside the frame loop, checked under SpecLoop *)

\* C23: the state reached by the menu -> playing transition has the snake
\* on the 4 cells (cx - i, cy), i = 0..3, head at the grid centre, heading
\* and queued heading (1, 0), score, pending growth and accumulator 0, the
\* entry buffer AAAA with cursor 0, and the food on a cell of the grid off
\* the snake, whatever the previous session left.
C23_StartResets ==
    [][ResetTaken =>
          LET cx == GRID_W \div 2
              cy == GRID_H \div 2
          IN  /\ snake' = <<<<cx, cy>>, <<cx - 1, cy>>, <<cx - 2, cy>>, <<cx - 3, cy>>>>
              /\ dir' = <<1, 0>> /\ next_dir' = <<1, 0>>
              /\ score' = 0 /\ grow' = 0 /\ accum' = 0
              /\ entry_name' = <<"A", "A", "A", "A">> /\ entry_idx' = 0
              /\ food' \in Cells /\ \A i \in 1 .. Len(snake') : snake'[i] # food'
      ]_vars

\* A second game has just started: a session has ended on the gameover
\* screen before, heading up into the wall, and the world is reset.
C23_Witness ==
    /\ pc = "frame" /\ state = "playing"
    /\ gameover_until > 0
    /\ snake = InitialSnake /\ dir = RIGHT /\ accum = 0 /\ score = 0

\* C24: handle_input_game() leaves the heading, the snake, the food, the
\* score and the pending growth unchanged; the heading is assigned only at
\* the start of step(), to the queued heading, and in reset().
C24_HeadingOnlyAtTick ==
    [][ /\ PollTaken => UNCHANGED <<dir, snake, food, score, grow>>
        /\ StepTaken => dir' = next_dir
        /\ dir' # dir => (StepTaken \/ ResetTaken)
      ]_vars

\* A turn is queued and not yet applied: the poll of a playing frame has
\* accepted UP and the tick has not run.
C24_Witness ==
    /\ pc = "ticks" /\ state = "playing" /\ accum >= STEP_MS
    /\ next_dir = UP /\ dir = RIGHT

----------------------------------------------------------------------------
(* Further claims about the world, checked under SpecWorld *)

\* The cell before the head along the queued heading lies outside the grid
\* or on the snake.
HeadBlocked ==
    LET nx == snake[1][1] + next_dir[1]
        ny == snake[1][2] + next_dir[2]
    IN  \/ nx < 0 \/ nx >= GRID_W \/ ny < 0 \/ ny >= GRID_H
        \/ \E i \in 1 .. Len(snake) : snake[i] = <<nx, ny>>

\* C25: a call of step() whose new head is outside the grid or on the body
\* leaves the snake, the food, the score and the pending growth as they
\* were; the leaderboard and the queued heading are left alone as well.
C25_CollisionLeavesWorld ==
    [][(StepTaken /\ HeadBlocked) =>
          /\ UNCHANGED <<snake, food, score, grow>>
          /\ UNCHANGED <<next_dir, scores, disk>>
          /\ dir' = next_dir
          /\ state' \in {"gameover", "topcelebrate", "enter_score"}
      ]_vars

\* A session that has eaten ended by running into the snake's own body: the
\* cell before the head is a body cell and the world still holds the score.
C25_Witness ==
    /\ state = "enter_score" /\ score = 1
    /\ HitsBody(NewHead(snake, dir), snake)
    /\ food \notin SnakeCells(snake)

\* C28: the snake has START_LEN + 2 * score - grow cells, the pending growth
\* is not negative and the snake is never shorter than START_LEN: a food
\* eaten adds a cell in its tick and one more in a later tick.
C28_LengthAccounting ==
    /\ Len(snake) = START_LEN + 2 * score - grow
    /\ grow >= 0
    /\ Len(snake) >= START_LEN

\* Two foods eaten in successive ticks: both second cells are still pending.
C28_Witness == score = 2 /\ grow = 2 /\ Len(snake) = START_LEN + 2

----------------------------------------------------------------------------
(* The timed screens, checked under SpecLoop *)

TimedScreens == {"gameover", "post_submit", "topcelebrate"}

\* The timer of the timed screen s and the screen that follows it.
DeadlineOf(s) ==
    IF s = "gameover" THEN gameover_until
    ELSE IF s = "post_submit" THEN post_until
    ELSE topcelebrate_until
SuccessorOf(s) == IF s = "topcelebrate" THEN "enter_score" ELSE "menu"

\* C27 (as claimed): a timed screen (gameover, post_submit, topcelebrate)
\* is left only for its successor (menu, menu, enter_score with the buffer
\* AAAA and the cursor 0) and only at a clock reading that has reached its
\* timer, whatever the input; and a frame that begins on a timed screen at
\* such a reading leaves it, so that the screen ends once the clock has
\* advanced to the timer.
C27_TimedScreensEnd ==
    [][ /\ (state \in TimedScreens /\ state' # state) =>
              /\ state' = SuccessorOf(state)
              /\ now' >= DeadlineOf(state)
              /\ state = "topcelebrate" => (entry_name' = A4 /\ entry_idx' = 0)
        /\ (pc = "frame" /\ state \in TimedScreens /\ now' >= DeadlineOf(state)) =>
              state' = SuccessorOf(state)
      ]_vars

====
